---- MODULE Spec2Model ----
(***************************************************************************)
(* EchoChamber: echochamber/client.py, class Client.                        *)
(*                                                                         *)
(* A Client drives one jabberite child process through pexpect.  The model *)
(* keeps, for every client, the fields of the object (_process, messages,  *)
(* conversation_id), the two places unread child output can sit (the pty   *)
(* pipe, which read_nonblocking reads, and pexpect's own buffer, which     *)
(* only expect searches), and the lines written to the child.  The test    *)
(* that uses the clients is one thread: its call stack is `stack`, one     *)
(* frame per active method, and every method is a small program over `pc`. *)
(***************************************************************************)
EXTENDS Integers, Sequences, FiniteSets, TLC

(* ------------------------------ bounds --------------------------------- *)
\* chunks of output of one child the client holds unconsumed (in the pty, in
\* pexpect's buffer, in self.messages): the child writes only below it
MaxUnread == 2
\* lines written to a child that it has not read yet: sendline blocks at it
MaxPending == 1
\* the timeout (seconds) the test passes to read_line/read_event/read_message
\* when it passes more than 0
MaxTimeout == 1

(* ------------------------- program constants --------------------------- *)
\* pexpect.spawn(..., timeout=3600): the deadline of every expect()
SpawnTimeout == 3600

Clients == {"A", "B"}
\* self.username = self.xmpp_user.split("@")[0]; the accounts are A@..., B@...
username(c) == c
\* Python's None, for conversation_id and for the match group
None == -1
ConvIds == {1, 12}
Codes == {1, 10}
\* how far the clock moves in one step of the model
Durations == {MaxTimeout, SpawnTimeout}

(* ------------------------------ lines ---------------------------------- *)
\* A line of child output is <<kind, number, name, name-or-body>>.
NoLine == <<"", 0, "", "">>
Connected == <<"Connected", 0, "", "">>            \* "** Connected"
Created(n) == <<"Created", n, "", "">>              \* "** Created conversation n:"
Selecting(n) == <<"Selecting", n, "", "">>          \* "** Selecting conversation n"
InviteConf(k, u, v) == <<"InviteConf", k, u, v>>    \* "** <k> u invited user v"
Invited(n) == <<"Invited", n, "", "">>              \* "** Invited to conversation n"
YouJoined == <<"YouJoined", 0, "", "">>             \* "you joined the chat session"
Joined(u) == <<"Joined", 0, u, "">>                 \* "u joined the chat session"
Msg(n, u, b) == <<"Msg", n, u, b>>                  \* "** <n> <u> b"
Other == <<"Other", 0, "", "">>                     \* any other line
Garbage == <<"Garbage", 0, "", "">>                 \* a line that lost its first byte

Bodies == {"hello", "world"}
Lines ==
    {Connected, YouJoined, Other}
        \cup {Created(n) : n \in ConvIds}
        \cup {Selecting(n) : n \in ConvIds}
        \cup {Invited(n) : n \in ConvIds}
        \cup {InviteConf(k, u, v) : k \in Codes, u \in Clients, v \in Clients}
        \cup {Joined(u) : u \in Clients}
        \cup {Msg(1, "A", b) : b \in Bodies}

\* the first byte of a line: "*" for the "** ..." lines
FirstByte(l) ==
    CASE l[1] = "YouJoined" -> "y"
      [] l[1] = "Joined" -> l[3]
      [] l[1] = "Other" -> "o"
      [] OTHER -> "*"

\* The child writes a line whole, or its first byte and later the rest.
\* A chunk is <<part, line>>, part one of "full", "head", "tail"; "rest" is
\* what pexpect keeps of a line after the end of a match.
FullChunk(l) == <<"full", l>>
HeadChunk(l) == <<"head", l>>
TailChunk(l) == <<"tail", l>>
RestChunk(l) == <<"rest", l>>

\* the line read_line returns when it has `acc` ("" or the first byte read so
\* far) and reads the chunk ch, which ends with the newline
Assemble(acc, ch) ==
    CASE ch[1] = "full" /\ acc = "" -> ch[2]
      [] ch[1] = "tail" /\ acc = FirstByte(ch[2]) -> ch[2]
      [] OTHER -> Garbage

(* ----------------------------- patterns -------------------------------- *)
\* The regular expressions the client waits for, as <<kind, number, name, name>>.
NoPattern == <<"", 0, "", "">>
PConnected == <<"PConnected", 0, "", "">>            \* r"\*\* Connected"
PCreated == <<"PCreated", 0, "", "">>                \* r"\*\* Created conversation (\d+):"
PSelecting == <<"PSelecting", 0, "", "">>            \* r"\*\* Selecting conversation (\d+)"
PInviteConf(u, v) == <<"PInviteConf", 0, u, v>>      \* r"\*\* <(\d)> u invited user v"
PInvited(n) == <<"PInvited", n, "", "">>             \* r"\*\* Invited to conversation n"
PYouJoined == <<"PYouJoined", 0, "", "">>            \* "you joined the chat session"
PJoined(u) == <<"PJoined", 0, u, "">>                \* "u joined the chat session"

Patterns ==
    {PConnected, PCreated, PSelecting, PYouJoined}
        \cup {PInvited(n) : n \in ConvIds}
        \cup {PJoined(u) : u \in Clients}

\* the decimal text of i is a prefix of the decimal text of j (i, j >= 0)
RECURSIVE DecimalPrefix(_, _)
DecimalPrefix(i, j) ==
    \/ i = j
    \/ j >= 10 /\ DecimalPrefix(i, j \div 10)

\* re.search(pat, l) finds a match in the text of the complete line l.  The
\* patterns are not anchored, so text may precede and follow the match.
Matches(pat, l) ==
    CASE pat[1] = "PConnected" -> l[1] = "Connected"
      [] pat[1] = "PCreated" -> l[1] = "Created"
      [] pat[1] = "PSelecting" -> l[1] = "Selecting"
      [] pat[1] = "PInviteConf" ->
            l[1] = "InviteConf" /\ l[2] \in 0..9 /\ l[3] = pat[3] /\ l[4] = pat[4]
      [] pat[1] = "PInvited" ->
            l[1] = "Invited" /\ pat[2] # None /\ DecimalPrefix(pat[2], l[2])
      [] pat[1] = "PYouJoined" -> l[1] = "YouJoined"
      [] pat[1] = "PJoined" -> l[1] = "Joined" /\ l[3] = pat[3]
      [] OTHER -> FALSE

\* int(match.group(1)) where the pattern has a group of digits, else None
Group(pat, l) ==
    IF pat[1] \in {"PCreated", "PSelecting"} THEN l[2] ELSE None

\* self.r_message = re.compile(r"^\*\* <(\d+)> <(\w+)> (.*)$");  r_message.match(line)
r_message(l) == l[1] = "Msg"

\* the complete line whose text starts at chunk i of buf, or NoLine
LineAt(buf, i) ==
    CASE buf[i][1] = "full" -> buf[i][2]
      [] /\ buf[i][1] = "head"
         /\ i < Len(buf)
         /\ buf[i + 1][1] = "tail"
         /\ FirstByte(buf[i + 1][2]) = FirstByte(buf[i][2]) -> buf[i + 1][2]
      [] OTHER -> NoLine

\* searcher_re.search: the first place in buf where pat matches, 0 when none
FirstMatch(pat, buf) ==
    LET hits == {i \in 1..Len(buf) : LineAt(buf, i) # NoLine /\ Matches(pat, LineAt(buf, i))}
    IN  IF hits = {} THEN 0 ELSE CHOOSE i \in hits : \A j \in hits : i <= j

\* what expect leaves in the buffer after the match at chunk i: the text
\* after the end of the match, at least the newline of the matched line
AfterMatch(buf, i) ==
    LET last == IF buf[i][1] = "head" THEN i + 1 ELSE i
    IN  <<RestChunk(LineAt(buf, i))>> \o SubSeq(buf, last + 1, Len(buf))

(* ------------------------------ state ---------------------------------- *)
VARIABLES
    process,          \* self._process: "None", or the spawn object with a child "alive" / "dead"
    spawns,           \* how often pexpect.spawn ran for the client
    connWaits,        \* how often connect waited for "** Connected"
    pipe,             \* child output not yet read from the pty (chunks)
    buffer,           \* self._process.buffer: output pexpect has read and expect has not consumed
    match,            \* int(self._process.match.group(1)) of the last expect, or None
    messages,         \* self.messages
    conversation_id,  \* self.conversation_id
    stdin,            \* the lines written to the child, oldest first
    pending,          \* the line whose first byte the child has written, or NoLine
    owed,             \* the message lines a child wrote, whole, while no expect was
                      \* waiting, and read_message has not returned since
    stack,            \* the test's call stack, innermost frame last
    call,             \* the frame of the last top-level call
    pre,              \* the fields of the clients when that call began
    script,           \* the calls a scripted test has still to make
    seen,             \* <<client, line>> for each line an expect matched since that call began
    outcome,          \* of the last top-level call: "running", "ok", or the exception raised
    ret               \* the value the last returning method returned

clientVars == <<process, spawns, connWaits, pipe, buffer, match, messages, conversation_id, stdin>>
childVars == <<pending, owed>>
callVars == <<call, pre, script, seen>>
vars == <<clientVars, childVars, callVars, stack, outcome, ret>>

RetNone == [n |-> None, line |-> NoLine]
RetInt(n) == [n |-> n, line |-> NoLine]
RetLine(l) == [n |-> None, line |-> l]

\* A frame: the method, its self, its number and name arguments, its pattern
\* (expect) or text (send_message) argument, where it is, the time left until its deadline (read_line, read_message, expect),
\* and read_line's local `line`.
Frame(fn, self, n, s, arg, left) ==
    [fn |-> fn, self |-> self, n |-> n, s |-> s, arg |-> arg,
     pc |-> "start", left |-> left, acc |-> ""]

NoFrame == Frame("", "A", None, "", NoPattern, 0)

\* what a claim about one call compares with the state after it
Fields ==
    [process |-> process, spawns |-> spawns, connWaits |-> connWaits,
     messages |-> messages, conversation_id |-> conversation_id]

\* Client.__init__
Init ==
    /\ process = [c \in Clients |-> "None"]
    /\ spawns = [c \in Clients |-> 0]
    /\ connWaits = [c \in Clients |-> 0]
    /\ pipe = [c \in Clients |-> <<>>]
    /\ buffer = [c \in Clients |-> <<>>]
    /\ match = [c \in Clients |-> None]
    /\ messages = [c \in Clients |-> <<>>]
    /\ conversation_id = [c \in Clients |-> None]
    /\ stdin = [c \in Clients |-> <<>>]
    /\ pending = [c \in Clients |-> NoLine]
    /\ owed = [c \in Clients |-> {}]
    /\ stack = <<>>
    /\ call = NoFrame
    /\ pre = Fields
    /\ script = <<>>
    /\ seen = <<>>
    /\ outcome = "ok"
    /\ ret = RetNone

Top == stack[Len(stack)]
At(fn, pc) == stack # <<>> /\ Top.fn = fn /\ Top.pc = pc

\* the running method calls f and continues at `next` when f returns
CallOp(next, f) ==
    /\ stack' = [stack EXCEPT ![Len(stack)].pc = next] \o <<f>>
    /\ UNCHANGED <<outcome, ret>>

\* the running method returns v
ReturnOp(v) ==
    /\ stack' = SubSeq(stack, 1, Len(stack) - 1)
    /\ ret' = v
    /\ outcome' = IF Len(stack) = 1 THEN "ok" ELSE outcome

\* the running method raises e; no method catches anything
RaiseOp(e) ==
    /\ stack' = <<>>
    /\ ret' = RetNone
    /\ outcome' = e

(* ------------------- send_message, expect, read_line ------------------- *)
\* a send_message that swallows the missing process
send_message_none_swallowed ==
    /\ At("send_message", "start")
    /\ process[Top.self] = "None"
    /\ ReturnOp(RetNone)
    /\ UNCHANGED <<clientVars, childVars, callVars>>

\* self._process.sendline(message) with _process None
send_message_none ==
    /\ At("send_message", "start")
    /\ process[Top.self] = "None"
    /\ RaiseOp("AttributeError")
    /\ UNCHANGED <<clientVars, childVars, callVars>>

\* os.write blocks while the child leaves its input full
send_message_alive ==
    /\ At("send_message", "start")
    /\ process[Top.self] = "alive"
    /\ Len(stdin[Top.self]) < MaxPending
    /\ stdin' = [stdin EXCEPT ![Top.self] = Append(@, Top.arg)]
    /\ ReturnOp(RetNone)
    /\ UNCHANGED <<process, spawns, connWaits, pipe, buffer, match, messages,
                   conversation_id, childVars, callVars>>

\* The child was killed: the write to the pty reaches nobody.  Whether
\* os.write still succeeds depends on the platform.
send_message_dead ==
    /\ At("send_message", "start")
    /\ process[Top.self] = "dead"
    /\ \/ ReturnOp(RetNone)
       \/ RaiseOp("OSError")
    /\ UNCHANGED <<clientVars, childVars, callVars>>

expect_none ==
    /\ At("expect", "start")
    /\ process[Top.self] = "None"
    /\ RaiseOp("AttributeError")
    /\ UNCHANGED <<clientVars, childVars, callVars>>

\* pexpect found the pattern in what it has read: everything up to the end
\* of the match leaves the buffer, the group is kept in _process.match
expect_match ==
    /\ At("expect", "start")
    /\ process[Top.self] # "None"
    /\ LET c == Top.self
           i == FirstMatch(Top.arg, buffer[c])
       IN  /\ i > 0
           /\ match' = [match EXCEPT ![c] = Group(Top.arg, LineAt(buffer[c], i))]
           /\ buffer' = [buffer EXCEPT ![c] = AfterMatch(buffer[c], i)]
           /\ seen' = Append(seen, <<c, LineAt(buffer[c], i)>>)
    /\ ReturnOp(RetNone)
    /\ UNCHANGED <<process, spawns, connWaits, pipe, messages, conversation_id,
                   stdin, childVars, call, pre, script>>

\* no match yet: read_nonblocking(maxread, timeout) moves all the output that
\* is available into pexpect's buffer
expect_read ==
    /\ At("expect", "start")
    /\ process[Top.self] # "None"
    /\ LET c == Top.self
       IN  /\ FirstMatch(Top.arg, buffer[c]) = 0
           /\ pipe[c] # <<>>
           /\ buffer' = [buffer EXCEPT ![c] = @ \o pipe[c]]
           /\ pipe' = [pipe EXCEPT ![c] = <<>>]
    /\ UNCHANGED <<process, spawns, connWaits, match, messages, conversation_id,
                   stdin, childVars, callVars, stack, outcome, ret>>

\* the deadline passed without a match: pexpect.TIMEOUT, the buffer is kept
expect_timeout ==
    /\ At("expect", "start")
    /\ process[Top.self] = "alive"
    /\ FirstMatch(Top.arg, buffer[Top.self]) = 0
    /\ Top.left = 0
    /\ match' = [match EXCEPT ![Top.self] = None]
    /\ RaiseOp("TIMEOUT")
    /\ UNCHANGED <<process, spawns, connWaits, pipe, buffer, messages, conversation_id,
                   stdin, childVars, callVars>>

\* the child is dead and nothing is left to read: pexpect.EOF, the buffer is dropped
expect_eof ==
    /\ At("expect", "start")
    /\ process[Top.self] = "dead"
    /\ FirstMatch(Top.arg, buffer[Top.self]) = 0
    /\ pipe[Top.self] = <<>>
    /\ match' = [match EXCEPT ![Top.self] = None]
    /\ buffer' = [buffer EXCEPT ![Top.self] = <<>>]
    /\ RaiseOp("EOF")
    /\ UNCHANGED <<process, spawns, connWaits, pipe, messages, conversation_id,
                   stdin, childVars, callVars>>

read_line_none ==
    /\ At("read_line", "start")
    /\ process[Top.self] = "None"
    /\ RaiseOp("AttributeError")
    /\ UNCHANGED <<clientVars, childVars, callVars>>

\* read_nonblocking(1, max(0, end - time.time())) returns the bytes that are
\* available, whatever is left of the timeout; read_line goes on to the newline
\* of a complete chunk, or holds the first byte of a line in `line`
read_line_bytes ==
    /\ At("read_line", "start")
    /\ process[Top.self] # "None"
    /\ pipe[Top.self] # <<>>
    /\ LET c == Top.self
           ch == Head(pipe[c])
       IN  /\ pipe' = [pipe EXCEPT ![c] = Tail(@)]
           /\ IF ch[1] = "head"
              THEN /\ stack' = [stack EXCEPT ![Len(stack)].acc = FirstByte(ch[2])]
                   /\ UNCHANGED <<outcome, ret>>
              ELSE ReturnOp(RetLine(Assemble(Top.acc, ch)))
    /\ UNCHANGED <<process, spawns, connWaits, buffer, match, messages, conversation_id,
                   stdin, childVars, callVars>>

\* nothing to read and the deadline passed: pexpect.TIMEOUT; `line` is lost
read_line_timeout ==
    /\ At("read_line", "start")
    /\ process[Top.self] = "alive"
    /\ pipe[Top.self] = <<>>
    /\ Top.left = 0
    /\ RaiseOp("TIMEOUT")
    /\ UNCHANGED <<clientVars, childVars, callVars>>

read_line_eof ==
    /\ At("read_line", "start")
    /\ process[Top.self] = "dead"
    /\ pipe[Top.self] = <<>>
    /\ RaiseOp("EOF")
    /\ UNCHANGED <<clientVars, childVars, callVars>>

(* ---------------------- read_event, read_message ----------------------- *)
\* line = self.read_line(timeout)
read_event_read ==
    /\ At("read_event", "start")
    /\ CallOp("classify", Frame("read_line", Top.self, Top.n, "", NoPattern, Top.n))
    /\ UNCHANGED <<clientVars, childVars, callVars>>

\* a read_event that queues every line it reads
read_event_classify_any ==
    /\ At("read_event", "classify")
    /\ messages' = [messages EXCEPT ![Top.self] = Append(@, ret.line)]
    /\ ReturnOp(RetNone)
    /\ UNCHANGED <<process, spawns, connWaits, pipe, buffer, match, conversation_id,
                   stdin, childVars, callVars>>

\* if self.r_message.match(line): self.messages.append(line)
read_event_classify ==
    /\ At("read_event", "classify")
    /\ messages' = [messages EXCEPT ![Top.self] =
                        IF r_message(ret.line) THEN Append(@, ret.line) ELSE @]
    /\ ReturnOp(RetNone)
    /\ UNCHANGED <<process, spawns, connWaits, pipe, buffer, match, conversation_id,
                   stdin, childVars, callVars>>

\* a read_message that pops the newest message: self.messages.pop()
read_message_pop_last ==
    /\ At("read_message", "start")
    /\ messages[Top.self] # <<>>
    /\ messages' = [messages EXCEPT ![Top.self] = SubSeq(@, 1, Len(@) - 1)]
    /\ owed' = [owed EXCEPT ![Top.self] = @ \ {messages[Top.self][Len(messages[Top.self])]}]
    /\ ReturnOp(RetLine(messages[Top.self][Len(messages[Top.self])]))
    /\ UNCHANGED <<process, spawns, connWaits, pipe, buffer, match, conversation_id,
                   stdin, pending, callVars>>

\* if self.messages: return self.messages.pop(0)
read_message_pop ==
    /\ At("read_message", "start")
    /\ messages[Top.self] # <<>>
    /\ messages' = [messages EXCEPT ![Top.self] = Tail(@)]
    /\ owed' = [owed EXCEPT ![Top.self] = @ \ {Head(messages[Top.self])}]
    /\ ReturnOp(RetLine(Head(messages[Top.self])))
    /\ UNCHANGED <<process, spawns, connWaits, pipe, buffer, match, conversation_id,
                   stdin, pending, callVars>>

\* a read_message that reads an event before it looks at the queue
read_message_read_always ==
    /\ At("read_message", "start")
    /\ CallOp("start", Frame("read_event", Top.self, Top.left, "", NoPattern, 0))
    /\ UNCHANGED <<clientVars, childVars, callVars>>

\* time_remaining = max(0, end - time.time()); self.read_event(time_remaining)
read_message_read ==
    /\ At("read_message", "start")
    /\ messages[Top.self] = <<>>
    /\ CallOp("start", Frame("read_event", Top.self, Top.left, "", NoPattern, 0))
    /\ UNCHANGED <<clientVars, childVars, callVars>>

(* --------------------------- connect, stop ----------------------------- *)
\* a connect without the test `if not self._process`
connect_spawn_unguarded ==
    /\ At("connect", "start")
    /\ process' = [process EXCEPT ![Top.self] = "alive"]
    /\ spawns' = [spawns EXCEPT ![Top.self] = @ + 1]
    /\ connWaits' = [connWaits EXCEPT ![Top.self] = @ + 1]
    /\ pipe' = [pipe EXCEPT ![Top.self] = <<>>]
    /\ buffer' = [buffer EXCEPT ![Top.self] = <<>>]
    /\ match' = [match EXCEPT ![Top.self] = None]
    /\ stdin' = [stdin EXCEPT ![Top.self] = <<>>]
    /\ pending' = [pending EXCEPT ![Top.self] = NoLine]
    /\ CallOp("done", Frame("expect", Top.self, None, "", PConnected, SpawnTimeout))
    /\ UNCHANGED <<messages, conversation_id, owed, callVars>>

\* if not self._process: self._process = pexpect.spawn(...); self.expect(r"\*\* Connected")
connect_spawn ==
    /\ At("connect", "start")
    /\ process[Top.self] = "None"
    /\ process' = [process EXCEPT ![Top.self] = "alive"]
    /\ spawns' = [spawns EXCEPT ![Top.self] = @ + 1]
    /\ connWaits' = [connWaits EXCEPT ![Top.self] = @ + 1]
    /\ pipe' = [pipe EXCEPT ![Top.self] = <<>>]
    /\ buffer' = [buffer EXCEPT ![Top.self] = <<>>]
    /\ match' = [match EXCEPT ![Top.self] = None]
    /\ stdin' = [stdin EXCEPT ![Top.self] = <<>>]
    /\ pending' = [pending EXCEPT ![Top.self] = NoLine]
    /\ CallOp("done", Frame("expect", Top.self, None, "", PConnected, SpawnTimeout))
    /\ UNCHANGED <<messages, conversation_id, owed, callVars>>

\* self._process is set: nothing is spawned and nothing is waited for
connect_skip ==
    /\ At("connect", "start")
    /\ process[Top.self] # "None"
    /\ ReturnOp(RetNone)
    /\ UNCHANGED <<clientVars, childVars, callVars>>

connect_done ==
    /\ At("connect", "done")
    /\ ReturnOp(RetNone)
    /\ UNCHANGED <<clientVars, childVars, callVars>>

\* a stop that also forgets the selected conversation
stop_resetting ==
    /\ At("stop", "start")
    /\ process' = [process EXCEPT ![Top.self] = IF @ = "None" THEN "None" ELSE "dead"]
    /\ stdin' = [stdin EXCEPT ![Top.self] = <<>>]
    /\ conversation_id' = [conversation_id EXCEPT ![Top.self] = None]
    /\ ReturnOp(RetNone)
    /\ UNCHANGED <<spawns, connWaits, pipe, buffer, match, messages, childVars, callVars>>

\* if self._process: self._process.terminate(force=True)
\* self._process keeps the spawn object of the killed child; what the child
\* had not read of its input is gone with it
stop ==
    /\ At("stop", "start")
    /\ process' = [process EXCEPT ![Top.self] = IF @ = "None" THEN "None" ELSE "dead"]
    /\ stdin' = [stdin EXCEPT ![Top.self] = <<>>]
    /\ ReturnOp(RetNone)
    /\ UNCHANGED <<spawns, connWaits, pipe, buffer, match, messages, conversation_id,
                   childVars, callVars>>

(* ------------------------ conversation methods ------------------------- *)
\* the lines the client writes to the child, as <<verb, number, name, text>>
CreateCmd == <<"/create", 0, "", "">>
SelectCmd(n) == <<"/select", n, "", "">>          \* "/select {}".format(conversation_id)
InviteCmd(u) == <<"/invite", 0, u, "">>           \* "/invite {}".format(username)
JoinCmd == <<"/join", 0, "", "">>
Say(b) == <<"", 0, "", b>>                        \* any other text: a chat message

Send(c, text) == Frame("send_message", c, None, "", text, 0)
Expect(c, pat) == Frame("expect", c, None, "", pat, SpawnTimeout)

\* a create_conversation that first forgets the selected conversation
create_conversation_send_clearing ==
    /\ At("create_conversation", "start")
    /\ conversation_id' = [conversation_id EXCEPT ![Top.self] = None]
    /\ CallOp("expect", Send(Top.self, CreateCmd))
    /\ UNCHANGED <<process, spawns, connWaits, pipe, buffer, match, messages,
                   stdin, childVars, callVars>>

\* self.send_message("/create")
create_conversation_send ==
    /\ At("create_conversation", "start")
    /\ CallOp("expect", Send(Top.self, CreateCmd))
    /\ UNCHANGED <<clientVars, childVars, callVars>>

create_conversation_expect ==
    /\ At("create_conversation", "expect")
    /\ CallOp("return", Expect(Top.self, PCreated))
    /\ UNCHANGED <<clientVars, childVars, callVars>>

\* a create_conversation that also selects the conversation it created
create_conversation_return_selecting ==
    /\ At("create_conversation", "return")
    /\ conversation_id' = [conversation_id EXCEPT ![Top.self] = match[Top.self]]
    /\ ReturnOp(RetInt(match[Top.self]))
    /\ UNCHANGED <<process, spawns, connWaits, pipe, buffer, match, messages,
                   stdin, childVars, callVars>>

\* return int(self._process.match.group(1))
create_conversation_return ==
    /\ At("create_conversation", "return")
    /\ ReturnOp(RetInt(match[Top.self]))
    /\ UNCHANGED <<clientVars, childVars, callVars>>

\* a select_conversation that records the requested id before the child confirms
select_conversation_send_storing ==
    /\ At("select_conversation", "start")
    /\ conversation_id' = [conversation_id EXCEPT ![Top.self] = Top.n]
    /\ CallOp("expect", Send(Top.self, SelectCmd(Top.n)))
    /\ UNCHANGED <<process, spawns, connWaits, pipe, buffer, match, messages,
                   stdin, childVars, callVars>>

\* self.send_message("/select {}".format(conversation_id))
select_conversation_send ==
    /\ At("select_conversation", "start")
    /\ CallOp("expect", Send(Top.self, SelectCmd(Top.n)))
    /\ UNCHANGED <<clientVars, childVars, callVars>>

select_conversation_expect ==
    /\ At("select_conversation", "expect")
    /\ CallOp("store", Expect(Top.self, PSelecting))
    /\ UNCHANGED <<clientVars, childVars, callVars>>

\* self.conversation_id = int(self._process.match.group(1)); return self.conversation_id
select_conversation_store ==
    /\ At("select_conversation", "store")
    /\ conversation_id' = [conversation_id EXCEPT ![Top.self] = match[Top.self]]
    /\ ReturnOp(RetInt(match[Top.self]))
    /\ UNCHANGED <<process, spawns, connWaits, pipe, buffer, match, messages,
                   stdin, childVars, callVars>>

invite_conversation_send ==
    /\ At("invite_conversation", "start")
    /\ CallOp("expect", Send(Top.self, InviteCmd(Top.s)))
    /\ UNCHANGED <<clientVars, childVars, callVars>>

invite_conversation_expect ==
    /\ At("invite_conversation", "expect")
    /\ CallOp("return", Expect(Top.self, PInviteConf(username(Top.self), Top.s)))
    /\ UNCHANGED <<clientVars, childVars, callVars>>

invite_conversation_return ==
    /\ At("invite_conversation", "return")
    /\ ReturnOp(RetNone)
    /\ UNCHANGED <<clientVars, childVars, callVars>>

\* a join_conversation that does not wait for the invitation
join_conversation_invited_skipped ==
    /\ At("join_conversation", "start")
    /\ CallOp("join", Frame("select_conversation", Top.self, Top.n, "", NoPattern, 0))
    /\ UNCHANGED <<clientVars, childVars, callVars>>

\* self.expect(r"\*\* Invited to conversation {}".format(conversation_id))
join_conversation_invited ==
    /\ At("join_conversation", "start")
    /\ CallOp("select", Expect(Top.self, PInvited(Top.n)))
    /\ UNCHANGED <<clientVars, childVars, callVars>>

join_conversation_select ==
    /\ At("join_conversation", "select")
    /\ CallOp("join", Frame("select_conversation", Top.self, Top.n, "", NoPattern, 0))
    /\ UNCHANGED <<clientVars, childVars, callVars>>

join_conversation_join ==
    /\ At("join_conversation", "join")
    /\ CallOp("expect", Send(Top.self, JoinCmd))
    /\ UNCHANGED <<clientVars, childVars, callVars>>

join_conversation_expect ==
    /\ At("join_conversation", "expect")
    /\ CallOp("return", Expect(Top.self, PYouJoined))
    /\ UNCHANGED <<clientVars, childVars, callVars>>

join_conversation_return ==
    /\ At("join_conversation", "return")
    /\ ReturnOp(RetNone)
    /\ UNCHANGED <<clientVars, childVars, callVars>>

\* an invite_and_join_conversation that sends the invitation and does not
\* wait for its confirmation
invite_and_join_conversation_invite_unconfirmed ==
    /\ At("invite_and_join_conversation", "start")
    /\ CallOp("join", Send(Top.self, InviteCmd(username(Top.s))))
    /\ UNCHANGED <<clientVars, childVars, callVars>>

\* self.invite_conversation(client.username)
invite_and_join_conversation_invite ==
    /\ At("invite_and_join_conversation", "start")
    /\ CallOp("join", Frame("invite_conversation", Top.self, None, username(Top.s), NoPattern, 0))
    /\ UNCHANGED <<clientVars, childVars, callVars>>

\* client.join_conversation(self.conversation_id)
invite_and_join_conversation_join ==
    /\ At("invite_and_join_conversation", "join")
    /\ CallOp("expect", Frame("join_conversation", Top.s, conversation_id[Top.self], "",
                              NoPattern, 0))
    /\ UNCHANGED <<clientVars, childVars, callVars>>

\* self.expect("{} joined the chat session".format(client.username))
invite_and_join_conversation_expect ==
    /\ At("invite_and_join_conversation", "expect")
    /\ CallOp("return", Expect(Top.self, PJoined(username(Top.s))))
    /\ UNCHANGED <<clientVars, childVars, callVars>>

invite_and_join_conversation_return ==
    /\ At("invite_and_join_conversation", "return")
    /\ ReturnOp(RetNone)
    /\ UNCHANGED <<clientVars, childVars, callVars>>

(* ------------------------- the child, the clock ------------------------ *)
\* what is left of a timeout after d seconds.  The seconds of an expect
\* deadline are not counted: it is whole until SpawnTimeout seconds passed.
Elapse(left, d) ==
    IF d >= left THEN 0 ELSE IF left = SpawnTimeout THEN left ELSE left - d

\* the chunks of c's child the client holds; what is left of a matched line
\* is not counted
Unread(c) ==
    Len(pipe[c]) + Len(SelectSeq(buffer[c], LAMBDA ch : ch[1] # "rest")) + Len(messages[c])

\* Output is looked at only by a running call: what a child writes between
\* two calls is written, in the model, as the next call begins.
CanWrite(c) ==
    /\ stack # <<>>
    /\ process[c] = "alive"
    /\ pending[c] = NoLine
    /\ Unread(c) < MaxUnread

\* some call is waiting in expect
ExpectPending == \E i \in DOMAIN stack : stack[i].fn = "expect"

\* the child of c writes the line l, whole
ChildEmit(c, l) ==
    /\ CanWrite(c)
    /\ pipe' = [pipe EXCEPT ![c] = Append(@, FullChunk(l))]
    /\ owed' = [owed EXCEPT ![c] = IF r_message(l) /\ ~ExpectPending THEN @ \cup {l} ELSE @]
    /\ UNCHANGED <<process, spawns, connWaits, buffer, match, messages, conversation_id,
                   stdin, pending, callVars, stack, outcome, ret>>

\* the child of c writes the first byte of the line l
ChildEmitHead(c, l) ==
    /\ CanWrite(c)
    /\ pipe' = [pipe EXCEPT ![c] = Append(@, HeadChunk(l))]
    /\ pending' = [pending EXCEPT ![c] = l]
    /\ UNCHANGED <<process, spawns, connWaits, buffer, match, messages, conversation_id,
                   stdin, owed, callVars, stack, outcome, ret>>

\* the child of c writes the rest of the line it began
ChildEmitTail(c) ==
    /\ stack # <<>>
    /\ process[c] = "alive"
    /\ pending[c] # NoLine
    /\ pipe' = [pipe EXCEPT ![c] = Append(@, TailChunk(pending[c]))]
    /\ pending' = [pending EXCEPT ![c] = NoLine]
    /\ UNCHANGED <<process, spawns, connWaits, buffer, match, messages, conversation_id,
                   stdin, owed, callVars, stack, outcome, ret>>

\* The line the child of c writes to its own client for the command cmd: the
\* output contract of the child.  n is the id of the conversation it creates
\* or invites to, k the code of its invite confirmation.
OwnAnswer(c, cmd, n, k) ==
    CASE cmd[1] = "/create" -> Created(n)
      [] cmd[1] = "/select" /\ cmd[2] # None -> Selecting(cmd[2])
      [] cmd[1] = "/invite" -> InviteConf(k, username(c), cmd[3])
      [] cmd[1] = "/join" -> YouJoined
      [] OTHER -> Other

\* the other clients whose children hear of cmd, with the line each hears
PeerAnswer(c, cmd, n) ==
    CASE cmd[1] = "/invite" ->
            [d \in {d \in Clients \ {c} : username(d) = cmd[3]} |-> Invited(n)]
      [] cmd[1] = "/join" -> [d \in Clients \ {c} |-> Joined(username(c))]
      [] OTHER -> [d \in {} |-> NoLine]

\* the child of c reads the oldest line written to it and answers, when the
\* clients that hear of it have room for a line
ChildAnswer(c, n, k) ==
    /\ CanWrite(c)
    /\ stdin[c] # <<>>
    /\ LET cmd == Head(stdin[c])
           peers == {d \in DOMAIN PeerAnswer(c, cmd, n) : process[d] = "alive"}
       IN  /\ \A d \in peers : Unread(d) < MaxUnread
           /\ pipe' = [d \in Clients |->
                           IF d = c THEN Append(pipe[d], FullChunk(OwnAnswer(c, cmd, n, k)))
                           ELSE IF d \in peers
                                THEN Append(pipe[d], FullChunk(PeerAnswer(c, cmd, n)[d]))
                                ELSE pipe[d]]
    /\ stdin' = [stdin EXCEPT ![c] = Tail(@)]
    /\ UNCHANGED <<process, spawns, connWaits, buffer, match, messages, conversation_id,
                   childVars, callVars, stack, outcome, ret>>

\* d seconds pass while a call is blocked
Tick(d) ==
    /\ \E i \in DOMAIN stack : stack[i].left > 0
    /\ stack' = [i \in DOMAIN stack |-> [stack[i] EXCEPT !.left = Elapse(@, d)]]
    /\ UNCHANGED <<clientVars, childVars, callVars, outcome, ret>>

(* ------------------------------ the test ------------------------------- *)
\* the test calls a method of a client
Call(f) ==
    /\ stack = <<>>
    /\ script = <<>>
    /\ stack' = <<f>>
    /\ call' = f
    /\ pre' = Fields
    /\ outcome' = "running"
    /\ ret' = RetNone
    /\ seen' = <<>>
    /\ UNCHANGED <<clientVars, childVars, script>>

\* a scripted test makes its next call; a call that raised has ended the test
ScriptCall ==
    /\ stack = <<>>
    /\ script # <<>>
    /\ outcome = "ok"
    /\ stack' = <<Head(script)>>
    /\ call' = Head(script)
    /\ pre' = Fields
    /\ script' = Tail(script)
    /\ outcome' = "running"
    /\ ret' = RetNone
    /\ seen' = <<>>
    /\ UNCHANGED <<clientVars, childVars>>

Timeouts == {0, MaxTimeout}

Method(fn, c) == Frame(fn, c, None, "", NoPattern, 0)
ReadLine(c, t) == Frame("read_line", c, t, "", NoPattern, t)
ReadEvent(c, t) == Frame("read_event", c, t, "", NoPattern, 0)
ReadMessage(c, t) == Frame("read_message", c, t, "", NoPattern, t)
Select(c, n) == Frame("select_conversation", c, n, "", NoPattern, 0)
Join(c, n) == Frame("join_conversation", c, n, "", NoPattern, 0)
Invite(c, d) == Frame("invite_conversation", c, None, d, NoPattern, 0)
InviteAndJoin(c, d) == Frame("invite_and_join_conversation", c, None, d, NoPattern, 0)

(* ------------------------ Spec: the life cycle ------------------------- *)
\* The test connects and stops client A, reads messages and selects
\* conversations in any order, and calls the other methods while nothing is
\* spawned.
Calls ==
    {Method(fn, "A") : fn \in {"connect", "stop"}}
        \cup {ReadEvent("A", t) : t \in Timeouts}
        \cup {ReadMessage("A", t) : t \in Timeouts}
        \cup {Select("A", n) : n \in ConvIds}

CallsUnconnected ==
    {Send("A", Say("hello")), Expect("A", PYouJoined), Method("create_conversation", "A"),
     Invite("A", "B"), Join("A", 1)}

\* what the child of A writes unasked
Noise == {Connected, Msg(1, "B", "hello")}

Next ==
    \/ \E f \in Calls : Call(f)
    \/ \E f \in CallsUnconnected : process[f.self] = "None" /\ Call(f)
    \/ send_message_none \/ send_message_alive \/ send_message_dead
    \/ expect_none \/ expect_match \/ expect_read \/ expect_timeout \/ expect_eof
    \/ read_line_none \/ read_line_bytes \/ read_line_timeout \/ read_line_eof
    \/ read_event_read \/ read_event_classify
    \/ read_message_pop \/ read_message_read
    \/ connect_spawn \/ connect_skip \/ connect_done
    \/ stop
    \/ select_conversation_send \/ select_conversation_expect \/ select_conversation_store
    \/ create_conversation_send
    \/ invite_conversation_send \/ join_conversation_invited
    \/ \E l \in Noise : ChildEmit("A", l)
    \/ ChildAnswer("A", 1, 1)
    \/ \E d \in Durations : Tick(d)

Spec == Init /\ [][Next]_vars

(* ---------------- SpecQueue: reading lines and messages ---------------- *)
E1 == Msg(1, "B", "hello")
E2 == Msg(1, "B", "world")

\* the state after the clients in cs have connected, have queued the message
\* lines q with read_event and have selected the conversations ids
Connect(cs, q, ids) ==
    /\ process = [c \in Clients |-> IF c \in cs THEN "alive" ELSE "None"]
    /\ spawns = [c \in Clients |-> IF c \in cs THEN 1 ELSE 0]
    /\ connWaits = spawns
    /\ pipe = [c \in Clients |-> <<>>]
    /\ buffer = [c \in Clients |-> IF c \in cs THEN <<RestChunk(Connected)>> ELSE <<>>]
    /\ match = [c \in Clients |-> None]
    /\ messages = [c \in Clients |-> IF c \in cs THEN q[c] ELSE <<>>]
    /\ conversation_id = [c \in Clients |-> IF c \in cs THEN ids[c] ELSE None]
    /\ stdin = [c \in Clients |-> <<>>]
    /\ pending = [c \in Clients |-> NoLine]
    /\ owed = [c \in Clients |-> {}]
    /\ stack = <<>>
    /\ call = NoFrame
    /\ pre = Fields
    /\ script = <<>>
    /\ seen = <<>>
    /\ outcome = "ok"
    /\ ret = RetNone

NoMessages == [c \in Clients |-> <<>>]
NoConversation == [c \in Clients |-> None]

InitConnected == Connect({"A"}, NoMessages, NoConversation)

\* Client A is connected; the test reads lines, events and messages while
\* other users chat: the child writes message lines and other lines, whole or
\* in two parts.
CallsQueue ==
    {ReadLine("A", t) : t \in Timeouts}
        \cup {ReadEvent("A", t) : t \in Timeouts}
        \cup {ReadMessage("A", t) : t \in Timeouts}

NextQueue ==
    \/ \E f \in CallsQueue : Call(f)
    \/ read_line_bytes \/ read_line_timeout
    \/ read_event_read \/ read_event_classify
    \/ read_message_pop \/ read_message_read
    \/ \E l \in {E1, E2, Other} : ChildEmit("A", l)
    \/ \E l \in {E1, E2} : ChildEmitHead("A", l)
    \/ ChildEmitTail("A")
    \/ \E d \in Durations : Tick(d)

SpecQueue == InitConnected /\ [][NextQueue]_vars

(* ------------------ SpecConv: the conversation methods ----------------- *)
\* Client A is connected, with or without a message in its queue; the test
\* creates and selects conversations, invites B, waits for a line and reads
\* messages, in any order, and the child answers each command or stays silent.
InitConv ==
    \E q \in {<<>>, <<E1>>} : Connect({"A"}, [NoMessages EXCEPT !["A"] = q], NoConversation)

CallsConv ==
    {Method("create_conversation", "A"), Invite("A", "B"), Expect("A", PYouJoined)}
        \cup {Select("A", 1), ReadMessage("A", MaxTimeout)}

NextConv ==
    \/ \E f \in CallsConv : Call(f)
    \/ send_message_alive
    \/ expect_match \/ expect_read \/ expect_timeout
    \/ read_line_bytes \/ read_line_timeout
    \/ read_event_read \/ read_event_classify
    \/ read_message_pop \/ read_message_read
    \/ create_conversation_send \/ create_conversation_expect \/ create_conversation_return
    \/ select_conversation_send \/ select_conversation_expect \/ select_conversation_store
    \/ invite_conversation_send \/ invite_conversation_expect \/ invite_conversation_return
    \/ ChildAnswer("A", 1, 1)
    \/ \E d \in Durations : Tick(d)

SpecConv == InitConv /\ [][NextConv]_vars

(* ------------------ SpecPair: invite_and_join_conversation ------------- *)
\* Clients A and B are connected, A with conversation 1 selected or with none.
\* The test has A invite B with invite_and_join_conversation, again and again;
\* each child answers the commands it is sent or stays silent.
InitPair ==
    \E n \in {None, 1} : Connect(Clients, NoMessages, [NoConversation EXCEPT !["A"] = n])

CallsPair == {InviteAndJoin("A", "B")}

NextPair ==
    \/ \E f \in CallsPair : Call(f)
    \/ send_message_alive
    \/ expect_match \/ expect_read \/ expect_timeout
    \/ select_conversation_send \/ select_conversation_expect \/ select_conversation_store
    \/ invite_conversation_send \/ invite_conversation_expect \/ invite_conversation_return
    \/ join_conversation_invited \/ join_conversation_select \/ join_conversation_join
    \/ join_conversation_expect \/ join_conversation_return
    \/ invite_and_join_conversation_invite \/ invite_and_join_conversation_join
    \/ invite_and_join_conversation_expect \/ invite_and_join_conversation_return
    \/ \E c \in Clients : ChildAnswer(c, 1, 1)
    \/ \E d \in Durations : Tick(d)

SpecPair == InitPair /\ [][NextPair]_vars

(* ------------------ SpecE2E: two clients, one conversation ------------- *)
\* The child of c announces the connection its client is waiting for.
ChildGreets(c) ==
    /\ stack # <<>>
    /\ Top.fn = "expect"
    /\ Top.self = c
    /\ Top.arg = PConnected
    /\ FirstMatch(PConnected, buffer[c] \o pipe[c]) = 0
    /\ ChildEmit(c, Connected)

\* The child of c writes a line no client waits for, while that leaves room
\* for the answer to a command.
ChildChatters(c) ==
    /\ Unread(c) + 1 < MaxUnread
    /\ ChildEmit(c, Other)

\* The test of two clients: A connects, creates a conversation and invites B;
\* B, connected at some point before the invitation, joins conversation 1; A
\* waits for "B joined the chat session".
Scenario ==
    <<Method("connect", "A"), Method("create_conversation", "A"), Invite("A", "B"),
      Join("B", 1), Expect("A", PJoined("B"))>>

\* the sequence q with x put in after its first i elements
Insert(q, i, x) == SubSeq(q, 1, i) \o <<x>> \o SubSeq(q, i + 1, Len(q))

Scenarios == {Insert(Scenario, i, Method("connect", "B")) : i \in 0..2}

InitE2E ==
    /\ process = [c \in Clients |-> "None"]
    /\ spawns = [c \in Clients |-> 0]
    /\ connWaits = [c \in Clients |-> 0]
    /\ pipe = [c \in Clients |-> <<>>]
    /\ buffer = [c \in Clients |-> <<>>]
    /\ match = [c \in Clients |-> None]
    /\ messages = NoMessages
    /\ conversation_id = NoConversation
    /\ stdin = [c \in Clients |-> <<>>]
    /\ pending = [c \in Clients |-> NoLine]
    /\ owed = [c \in Clients |-> {}]
    /\ stack = <<>>
    /\ call = NoFrame
    /\ pre = Fields
    /\ script \in Scenarios
    /\ seen = <<>>
    /\ outcome = "ok"
    /\ ret = RetNone

\* The children answer every command and write other lines in between, the
\* first conversation created is conversation 1, and no deadline is reached.
NextE2E ==
    \/ ScriptCall
    \/ connect_spawn \/ connect_done
    \/ send_message_alive
    \/ expect_match \/ expect_read
    \/ create_conversation_send \/ create_conversation_expect \/ create_conversation_return
    \/ select_conversation_send \/ select_conversation_expect \/ select_conversation_store
    \/ invite_conversation_send \/ invite_conversation_expect \/ invite_conversation_return
    \/ join_conversation_invited \/ join_conversation_select \/ join_conversation_join
    \/ join_conversation_expect \/ join_conversation_return
    \/ \E c \in Clients : ChildGreets(c)
    \/ \E c \in Clients : ChildAnswer(c, 1, 1)
    \/ \E c \in Clients : ChildChatters(c)

\* the test and the children keep running
SpecE2E == InitE2E /\ [][NextE2E]_vars /\ WF_vars(NextE2E)

(* ---------------------- SpecJoin: join_conversation -------------------- *)
\* Client A is connected.  The test calls join_conversation(1) on it, again
\* and again; the child announces invitations to the conversations 1 and 12
\* at any time and answers the commands it is sent, or stays silent.
NextJoin ==
    \/ Call(Join("A", 1))
    \/ send_message_alive
    \/ expect_match \/ expect_read \/ expect_timeout
    \/ select_conversation_send \/ select_conversation_expect \/ select_conversation_store
    \/ join_conversation_invited \/ join_conversation_select \/ join_conversation_join
    \/ join_conversation_expect \/ join_conversation_return
    \/ \E n \in ConvIds : ChildEmit("A", Invited(n))
    \/ ChildAnswer("A", 1, 1)
    \/ \E d \in Durations : Tick(d)

SpecJoin == InitConnected /\ [][NextJoin]_vars

(* ------------- SpecInvited: an invitation that arrived early ----------- *)
\* Client A is connected and its child has written "** Invited to
\* conversation 1".  The test then joins conversation 1, at once or after one
\* read_event or read_message.
ScriptsInvited ==
    {<<Join("A", 1)>>}
        \cup {<<ReadEvent("A", t), Join("A", 1)>> : t \in Timeouts}
        \cup {<<ReadMessage("A", t), Join("A", 1)>> : t \in Timeouts}

InitInvited ==
    /\ process = [c \in Clients |-> IF c = "A" THEN "alive" ELSE "None"]
    /\ spawns = [c \in Clients |-> IF c = "A" THEN 1 ELSE 0]
    /\ connWaits = spawns
    /\ pipe = [c \in Clients |-> IF c = "A" THEN <<FullChunk(Invited(1))>> ELSE <<>>]
    /\ buffer = [c \in Clients |-> IF c = "A" THEN <<RestChunk(Connected)>> ELSE <<>>]
    /\ match = [c \in Clients |-> None]
    /\ messages = NoMessages
    /\ conversation_id = NoConversation
    /\ stdin = [c \in Clients |-> <<>>]
    /\ pending = [c \in Clients |-> NoLine]
    /\ owed = [c \in Clients |-> {}]
    /\ stack = <<>>
    /\ call = NoFrame
    /\ pre = Fields
    /\ script \in ScriptsInvited
    /\ seen = <<>>
    /\ outcome = "ok"
    /\ ret = RetNone

\* the child writes message lines of other users and answers every command
NextInvited ==
    \/ ScriptCall
    \/ send_message_alive
    \/ expect_match \/ expect_read \/ expect_timeout
    \/ read_line_bytes \/ read_line_timeout
    \/ read_event_read \/ read_event_classify
    \/ read_message_pop \/ read_message_read
    \/ select_conversation_send \/ select_conversation_expect \/ select_conversation_store
    \/ join_conversation_invited \/ join_conversation_select \/ join_conversation_join
    \/ join_conversation_expect \/ join_conversation_return
    \/ ChildEmit("A", E1)
    \/ ChildAnswer("A", 1, 1)
    \/ \E d \in Durations : Tick(d)

SpecInvited == InitInvited /\ [][NextInvited]_vars

(* -------------------- SpecInvite: invite_conversation ------------------ *)
\* Client A is connected.  The test calls invite_conversation("B") on it,
\* again and again; the child confirms each invitation with a code of one or
\* of two digits, or stays silent, and reports invitations of B by another
\* user at any time.
NextInvite ==
    \/ Call(Invite("A", "B"))
    \/ send_message_alive
    \/ expect_match \/ expect_read \/ expect_timeout
    \/ invite_conversation_send \/ invite_conversation_expect \/ invite_conversation_return
    \/ \E k \in Codes : ChildAnswer("A", 1, k)
    \/ \E k \in Codes : ChildEmit("A", InviteConf(k, "B", "B"))
    \/ \E d \in Durations : Tick(d)

SpecInvite == InitConnected /\ [][NextInvite]_vars

(* ------- SpecStale: invite_and_join_conversation after a select -------- *)
\* As SpecPair, and the test also calls select_conversation(12) on B, whose
\* child may answer late.
CallsStale == {Select("B", 12), InviteAndJoin("A", "B")}

NextStale ==
    \/ \E f \in CallsStale : Call(f)
    \/ send_message_alive
    \/ expect_match \/ expect_read \/ expect_timeout
    \/ select_conversation_send \/ select_conversation_expect \/ select_conversation_store
    \/ invite_conversation_send \/ invite_conversation_expect \/ invite_conversation_return
    \/ join_conversation_invited \/ join_conversation_select \/ join_conversation_join
    \/ join_conversation_expect \/ join_conversation_return
    \/ invite_and_join_conversation_invite \/ invite_and_join_conversation_join
    \/ invite_and_join_conversation_expect \/ invite_and_join_conversation_return
    \/ \E c \in Clients : ChildAnswer(c, 1, 1)
    \/ \E d \in Durations : Tick(d)

SpecStale == InitPair /\ [][NextStale]_vars

(* ------------------------------ claims --------------------------------- *)
\* the test's last call was fn and it is over
Returned(fn) == stack = <<>> /\ call.fn = fn /\ outcome # "running"

\* C1: a client spawns a process at most once and waits for "** Connected" at
\* most once; a connect call on a client that already holds a process returns
\* without spawning and without waiting for "** Connected" again.
C1_ConnectIdempotent ==
    /\ \A c \in Clients : spawns[c] <= 1 /\ connWaits[c] <= 1
    /\ (Returned("connect") /\ pre.process[call.self] # "None") =>
          /\ outcome = "ok"
          /\ process = pre.process
          /\ spawns = pre.spawns
          /\ connWaits = pre.connWaits

C1_Witness ==
    /\ Returned("connect")
    /\ pre.process["A"] = "alive"
    /\ pre.spawns["A"] = 1
    /\ outcome = "ok"

\* the complete lines read_line still finds in the pty of c
InPipe(c) == {pipe[c][i][2] : i \in {i \in DOMAIN pipe[c] : pipe[c][i][1] = "full"}}
InQueue(c) == {messages[c][i] : i \in DOMAIN messages[c]}
\* the line read_line has just returned to a read_event that has not yet classified it
InHand(c) ==
    IF stack # <<>> /\ Top.fn = "read_event" /\ Top.pc = "classify" /\ Top.self = c
    THEN {ret.line} ELSE {}

\* C4: a message line the child wrote while no expect was waiting is not lost:
\* until read_message returns it, it is in self.messages or still to be read
\* from the child's output, whatever the client has been asked to do since.
C4_MessageNeverLost ==
    \A c \in Clients : owed[c] \subseteq (InPipe(c) \cup InQueue(c) \cup InHand(c))

\* C7: a connect call on a client whose process stop() has killed spawns a
\* process and waits for "** Connected".
C7_ConnectAfterStopSpawns ==
    (Returned("connect") /\ pre.process[call.self] = "dead") =>
        /\ spawns[call.self] = pre.spawns[call.self] + 1
        /\ connWaits[call.self] = pre.connWaits[call.self] + 1

\* C8: stop never raises, whatever happened before; it leaves self.messages and
\* self.conversation_id as they were, kills the process if there is one, and
\* changes nothing when nothing was spawned.
C8_StopSafe ==
    Returned("stop") =>
        /\ outcome = "ok"
        /\ messages = pre.messages
        /\ conversation_id = pre.conversation_id
        /\ spawns = pre.spawns
        /\ connWaits = pre.connWaits
        /\ process = [pre.process EXCEPT ![call.self] = IF @ = "None" THEN "None" ELSE "dead"]

\* stop on a client already stopped, with a message queued and a conversation selected
C8_Witness ==
    /\ Returned("stop")
    /\ pre.process["A"] = "dead"
    /\ messages["A"] # <<>>
    /\ conversation_id["A"] # None

\* C9: send_message, expect, read_message with nothing queued, and the
\* create / select / invite / join methods, called on a client that has
\* spawned nothing, fail with the error of using None as a process
\* (AttributeError) and leave the fields of the client as they were.
NeedsProcess ==
    \/ call.fn \in {"send_message", "expect", "create_conversation", "select_conversation",
                    "invite_conversation", "join_conversation"}
    \/ call.fn = "read_message" /\ pre.messages[call.self] = <<>>

C9_NoProcess ==
    (stack = <<>> /\ outcome # "running" /\ NeedsProcess /\ pre.process[call.self] = "None") =>
        /\ outcome = "AttributeError"
        /\ Fields = pre
        /\ stdin[call.self] = <<>>

C9_Witness ==
    /\ Returned("join_conversation")
    /\ pre.process["A"] = "None"
    /\ outcome = "AttributeError"

\* C10: when select_conversation(id) returns, self.conversation_id and the
\* value returned are the id asked for.
C10_SelectStoresRequested ==
    (Returned("select_conversation") /\ outcome = "ok") =>
        /\ conversation_id[call.self] = call.n
        /\ ret.n = call.n

\* C5: the message queue is first in, first out. A step changes a client's
\* queue in two ways only: read_event appends the message line it has just
\* read at the tail, and read_message removes the head and returns it. So no
\* queued message is dropped, duplicated or overtaken.
C5_Fifo ==
    [][\A c \in Clients :
        \/ messages'[c] = messages[c]
        \/ /\ At("read_event", "classify")
           /\ Top.self = c
           /\ r_message(ret.line)
           /\ messages'[c] = Append(messages[c], ret.line)
        \/ /\ At("read_message", "start")
           /\ Top.self = c
           /\ messages[c] # <<>>
           /\ messages'[c] = Tail(messages[c])
           /\ ret' = RetLine(Head(messages[c]))]_vars

\* read_event queued E1 and then E2, and read_message has returned E1 and left E2
C5_Witness ==
    /\ Returned("read_message")
    /\ outcome = "ok"
    /\ pre.messages["A"] = <<E1, E2>>
    /\ ret = RetLine(E1)
    /\ messages["A"] = <<E2>>

\* the test's last call was one of the waiting methods and its deadline elapsed
TimedOut ==
    /\ stack = <<>>
    /\ outcome = "TIMEOUT"
    /\ call.fn \in {"expect", "read_message", "create_conversation",
                    "select_conversation", "invite_conversation"}

\* C6: a call of expect, read_message, create_conversation, select_conversation
\* or invite_conversation that fails on its deadline leaves the process handle,
\* the message queue and conversation_id of every client as they were when the
\* call began.
C6_TimeoutLeavesState ==
    TimedOut =>
        /\ process = pre.process
        /\ spawns = pre.spawns
        /\ messages = pre.messages
        /\ conversation_id = pre.conversation_id

\* a select_conversation timed out on a client that holds a queued message
C6_Witness ==
    /\ TimedOut
    /\ call.fn = "select_conversation"
    /\ messages["A"] = <<E1>>
    /\ conversation_id["A"] = None

\* an expect of client c has matched the line l since the test's last call began
SawLine(c, l) == \E i \in DOMAIN seen : seen[i] = <<c, l>>
SawInviteConf(c, d) ==
    \E k \in 0..9 : SawLine(c, InviteConf(k, username(c), username(d)))
Running(c, fn) == \E i \in DOMAIN stack : stack[i].self = c /\ stack[i].fn = fn

\* C2: invite_and_join_conversation keeps a fixed order. While it runs,
\* nothing is called on the invitee, so no command is sent to the invitee's
\* child, before the inviter has matched its invite confirmation; the inviter
\* waits for "<invitee> joined the chat session" only when the invitee's
\* join_conversation is over and the invitee has matched "you joined the chat
\* session"; and when the call returns, the inviter has matched its
\* confirmation, then the invitee "you joined the chat session", then the
\* inviter "<invitee> joined the chat session".
C2_InviteAndJoinOrder ==
    /\ (stack # <<>> /\ stack[1].fn = "invite_and_join_conversation") =>
          LET a == stack[1].self
              b == stack[1].s
          IN  /\ (\E i \in DOMAIN stack : stack[i].self = b) => SawInviteConf(a, b)
              /\ (\E i \in DOMAIN stack :
                     /\ stack[i].fn = "expect"
                     /\ stack[i].self = a
                     /\ stack[i].arg = PJoined(username(b))) =>
                    /\ SawLine(b, YouJoined)
                    /\ ~Running(b, "join_conversation")
    /\ (Returned("invite_and_join_conversation") /\ outcome = "ok") =>
          \E h, i, j \in DOMAIN seen :
              /\ h < i
              /\ i < j
              /\ \E k \in 0..9 :
                    seen[h] = <<call.self, InviteConf(k, username(call.self), username(call.s))>>
              /\ seen[i] = <<call.s, YouJoined>>
              /\ seen[j] = <<call.self, Joined(username(call.s))>>

\* A has invited B and B has joined A's conversation
C2_Witness ==
    /\ Returned("invite_and_join_conversation")
    /\ outcome = "ok"
    /\ call.self = "A"
    /\ call.s = "B"
    /\ conversation_id["B"] = 1

\* the scripted test has made its last call, the wait of A for "B joined the
\* chat session", and every call has returned
ScenarioDone ==
    /\ script = <<>>
    /\ stack = <<>>
    /\ outcome = "ok"
    /\ call = Expect("A", PJoined("B"))

\* C3 as stated: when the scenario is over, the current conversation of A is 1
\* and the current conversation of B is 1.
C3_BothSelected ==
    ScenarioDone => conversation_id["A"] = 1 /\ conversation_id["B"] = 1

\* C3, amended: every step of the scenario completes; create_conversation
\* returns 1; and when the scenario is over the current conversation of B is 1,
\* while conversation_id of A is still None, because create_conversation
\* selects nothing and A never calls select_conversation.
C3_Scenario ==
    /\ <>ScenarioDone
    /\ []((Returned("create_conversation") /\ outcome = "ok") => ret = RetInt(1))
    /\ [](ScenarioDone => conversation_id["B"] = 1 /\ conversation_id["A"] = None)

\* the scenario is over and both children were spawned once
C3_Witness ==
    /\ ScenarioDone
    /\ spawns = [c \in Clients |-> 1]
    /\ conversation_id["B"] = 1

\* C11: create_conversation leaves conversation_id as it was, whether it
\* returns or raises; and conversation_id changes in one step only, the one in
\* which select_conversation, its expect matched, stores the matched id and
\* returns.
C11_OnlySelectStores ==
    /\ [](Returned("create_conversation") => conversation_id = pre.conversation_id)
    /\ [][conversation_id' # conversation_id =>
             /\ At("select_conversation", "store")
             /\ stack' = SubSeq(stack, 1, Len(stack) - 1)
             /\ outcome' # "TIMEOUT"
             /\ conversation_id' =
                    [conversation_id EXCEPT ![Top.self] = match[Top.self]]]_vars

\* create_conversation has returned an id on a client with a conversation selected
C11_Witness ==
    /\ Returned("create_conversation")
    /\ outcome = "ok"
    /\ ret = RetInt(1)
    /\ pre.conversation_id["A"] = 1
    /\ conversation_id["A"] = 1

\* C12: read_line does not read past its deadline. Once the timeout it was
\* given (more than 0) has elapsed while it holds only the beginning of a
\* line, no step of read_line takes further output of the child from the pty:
\* the call can only fail with TIMEOUT.
C12_NoReadPastDeadline ==
    [][(/\ At("read_line", "start")
        /\ Top.n > 0
        /\ Top.left = 0
        /\ Top.acc # ""
        /\ pipe[Top.self] # <<>>) =>
           pipe'[Top.self] # Tail(pipe[Top.self])]_vars

\* C13: the invitation wait of join_conversation(id) is matched by an
\* invitation to conversation id only: every "Invited to conversation j" line
\* an expect matched during a join_conversation call has j = id.
C13_ExactInvitation ==
    call.fn = "join_conversation" =>
        \A i \in DOMAIN seen : seen[i][2][1] = "Invited" => seen[i][2][2] = call.n

\* C14: an invitation to conversation 1 that the child wrote before
\* join_conversation(1) was called is found by that call, whatever the test
\* read in between: when the call is over, its invitation wait has matched,
\* or the call ran out of time with the invitation still unread in the
\* output of the child.
C14_InvitationKept ==
    (script = <<>> /\ Returned("join_conversation")) =>
        \/ seen # <<>>
        \/ FirstMatch(PInvited(call.n), buffer[call.self] \o pipe[call.self]) > 0

\* the kinds of the lines matched since the test's last call began, in order
Kinds(q) == [i \in DOMAIN q |-> q[i][2][1]]
JoinRunning(c) ==
    stack # <<>> /\ stack[1].fn = "join_conversation" /\ stack[1].self = c

\* C15: join_conversation(id) waits for the invitation, sends "/select id",
\* waits for the confirmation, stores conversation_id, sends "/join" and waits
\* for "you joined the chat session", in this order and each wait once. So a
\* command is sent only when the waits before it have matched, conversation_id
\* changes only after the first two waits have matched, a return has all
\* three matches, and a call that failed at its first or second wait has left
\* conversation_id as it was.
C15_JoinOrder ==
    /\ [][\A c \in Clients :
            (JoinRunning(c) /\ Len(stdin'[c]) > Len(stdin[c])) =>
                LET cmd == stdin'[c][Len(stdin'[c])]
                IN  \/ /\ cmd = SelectCmd(stack[1].n)
                       /\ Kinds(seen) = <<"Invited">>
                       /\ conversation_id[c] = pre.conversation_id[c]
                    \/ /\ cmd = JoinCmd
                       /\ Kinds(seen) = <<"Invited", "Selecting">>
                       /\ conversation_id[c] = match[c]]_vars
    /\ [][\A c \in Clients :
            (JoinRunning(c) /\ conversation_id'[c] # conversation_id[c]) =>
                Kinds(seen) = <<"Invited", "Selecting">>]_vars
    /\ [](Returned("join_conversation") =>
            IF outcome = "ok"
            THEN Kinds(seen) = <<"Invited", "Selecting", "YouJoined">>
            ELSE /\ Len(seen) < 3
                 /\ Len(seen) < 2 => conversation_id = pre.conversation_id)

\* join_conversation(1) has returned on a client that had no conversation selected
C15_Witness ==
    /\ Returned("join_conversation")
    /\ outcome = "ok"
    /\ pre.conversation_id["A"] = None
    /\ conversation_id["A"] = 1

\* C16: the beginning of a line that a read_line has read before its deadline
\* is kept for the retry: when the rest of the line has arrived, the next
\* read_line returns the complete line, so no read_line ever returns a line
\* without its first byte, and read_message returns the message.
C16_PartialLineKept == ret.line # Garbage

\* a step of the running call takes a chunk of c's output from the pty
Consumes(c) == pipe[c] # <<>> /\ pipe'[c] = Tail(pipe[c])
ReadMessageRunning(c) ==
    stack # <<>> /\ stack[1].fn = "read_message" /\ stack[1].self = c

C18_ReadEvent ==
    /\ [](\A c \in Clients : \A i \in DOMAIN messages[c] : r_message(messages[c][i]))
    /\ [][\A c \in Clients :
            (/\ stack # <<>>
             /\ Top.self = c
             /\ stack[1].fn = "read_event"
             /\ Consumes(c)
             /\ Head(pipe[c])[1] # "head") =>
                /\ Len(stack') = 1
                /\ stack'[1].pc = "classify"
                /\ ret' = RetLine(Assemble(Top.acc, Head(pipe[c])))]_vars
    /\ [][\A c \in Clients :
            (At("read_event", "classify") /\ Top.self = c) =>
                /\ ~Consumes(c)
                /\ Len(stack') < Len(stack) =>
                      messages'[c] = IF r_message(ret.line)
                                     THEN Append(messages[c], ret.line)
                                     ELSE messages[c]]_vars
    /\ [](Returned("read_event") /\ outcome # "ok" => messages = pre.messages)

\* read_event has read a line that is no message and has left the queue as it was
C18_Witness ==
    /\ Returned("read_event")
    /\ outcome = "ok"
    /\ pre.messages["A"] = <<E1>>
    /\ messages["A"] = <<E1>>

\* the confirmation of c's invitation of d, whatever its code
OwnInviteConf(c, d, l) == l[1] = "InviteConf" /\ l[3] = username(c) /\ l[4] = username(d)

\* C19: invite_conversation succeeds whenever the child has written the
\* confirmation that names the client as inviter and the argument as invitee,
\* whatever the code in brackets: a call that fails on its deadline has no
\* such line, complete, among the output it has read; and a call that returns
\* has matched such a line, never the confirmation of another inviter.
C19_AnyCodeConfirms ==
    Returned("invite_conversation") =>
        /\ outcome = "TIMEOUT" =>
              \A i \in DOMAIN buffer[call.self] :
                  ~OwnInviteConf(call.self, call.s, LineAt(buffer[call.self], i))
        /\ outcome = "ok" =>
              \E i \in DOMAIN seen :
                  seen[i][1] = call.self /\ OwnInviteConf(call.self, call.s, seen[i][2])

\* C20: invite_and_join_conversation hands the invitee the conversation_id
\* the inviter had when the call began; when the call returns, inviter and
\* invitee hold the same conversation_id and neither is None; and a call on
\* an inviter whose conversation_id is None does not return.
C20_SameConversation ==
    call.fn = "invite_and_join_conversation" =>
        /\ \A i \in DOMAIN stack :
               stack[i].fn = "join_conversation" =>
                   /\ stack[i].self = call.s
                   /\ stack[i].n = pre.conversation_id[call.self]
        /\ (stack = <<>> /\ outcome = "ok") =>
               /\ conversation_id[call.self] # None
               /\ conversation_id[call.s] # None
               /\ conversation_id[call.self] = conversation_id[call.s]
        /\ (stack = <<>> /\ pre.conversation_id[call.self] = None) => outcome # "ok"

====
